---- MODULE Spec2Model ----
(***************************************************************************)
(* Model of the dependency-graph analyzer (src/package_analyzer.py) and of  *)
(* the configuration pipeline (src/main.py).                               *)
(*                                                                         *)
(* Python strings are modelled as sequences of one-character strings, so   *)
(* that lower(), strip(), split(), startswith(), the `in` substring test   *)
(* and the regular expressions are computed, not assumed.  Dictionaries    *)
(* whose iteration order the code uses are sequences of <<key, value>>     *)
(* pairs in insertion order with unique keys.                              *)
(***************************************************************************)
EXTENDS Integers, Sequences, FiniteSets, TLC

VARIABLES
    config_file,   \* environment: the configuration file ("missing" flag + parsed content)
    test_file,     \* environment: the fixture file as read_test_graph returns it
    config_data,   \* PackageAnalyzer.config_data
    pc,            \* position of run()
    test_graph,    \* run(): local test_graph
    graph,         \* build_*_bfs: local graph  (name -> dict)
    visited,       \* build_*_bfs: local visited
    queue,         \* build_*_bfs: local queue (test: names; remote: <<name, version>>)
    order,         \* history: names that passed the visited check, in order
    assigned,      \* history: names k of every executed `graph[k] = ...`
    enqueued,      \* history: every item appended to the queue (seed included)
    cycle_log,     \* stdout: "Обнаружен цикл: p уже посещен" lines (p)
    skip_log,      \* stdout: "Пропуск пакета p" lines (p)
    fetch_log,     \* network: every request issued by get_cargo_toml_content
    report,        \* stdout: what print_graph_info printed
    exit_code,     \* process exit status (-1 while running)
    text,          \* parse_dependencies: argument cargo_toml_content
    parsed,        \* parse_dependencies: returned dict (with a "called" flag)
    adjacency,     \* fixture: the adjacency map the fixture file was written from
    fixture_text,  \* fixture: the content of the file read_test_graph opens
    read_back,     \* read_test_graph: returned graph (with a "done" flag)
    argv_len,      \* main.py: len(sys.argv)
    yaml_file,     \* main.py: the file at config_path and what yaml.safe_load makes of it
    config,        \* main.py: ConfigManager.config
    printed_config \* main.py: print_config has written the parameters to stdout

vars == <<config_file, test_file, config_data, pc, test_graph, graph, visited,
          queue, order, assigned, enqueued, cycle_log, skip_log, fetch_log,
          report, exit_code, text, parsed, adjacency, fixture_text, read_back,
          argv_len, yaml_file, config, printed_config>>

(***************************************************************************)
(* Bounds of the model.                                                    *)
(***************************************************************************)
\* total number of dependency entries in a fixture (sum of list lengths)
MaxEdges == 3
\* number of lines of a manifest text handed to parse_dependencies alone
MaxLines == 4

(***************************************************************************)
(* Strings.                                                                *)
(***************************************************************************)
Range(s) == {s[i] : i \in 1..Len(s)}

UpperLetters == <<"A","B","C","D","E","F","G","H","I","J","K","L","M",
                  "N","O","P","Q","R","S","T","U","V","W","X","Y","Z">>
LowerLetters == <<"a","b","c","d","e","f","g","h","i","j","k","l","m",
                  "n","o","p","q","r","s","t","u","v","w","x","y","z">>
Digits == {"0","1","2","3","4","5","6","7","8","9"}

\* str.lower() on one character
LowerChar(c) ==
    IF \E i \in 1..26 : UpperLetters[i] = c
    THEN LowerLetters[CHOOSE i \in 1..26 : UpperLetters[i] = c]
    ELSE c

\* str.upper() on one character (used only to state case-insensitivity)
UpperChar(c) ==
    IF \E i \in 1..26 : LowerLetters[i] = c
    THEN UpperLetters[CHOOSE i \in 1..26 : LowerLetters[i] = c]
    ELSE c

\* str.lower()
Lower(s) == [i \in 1..Len(s) |-> LowerChar(s[i])]

Upper(s) == [i \in 1..Len(s) |-> UpperChar(s[i])]

\* `sub in s` for strings
IsSubstring(sub, s) ==
    \E i \in 0..(Len(s) - Len(sub)) : SubSeq(s, i + 1, i + Len(sub)) = sub

\* str.startswith
StartsWith(s, p) == Len(s) >= Len(p) /\ SubSeq(s, 1, Len(p)) = p

\* str.endswith
EndsWith(s, p) == Len(s) >= Len(p) /\ SubSeq(s, Len(s) - Len(p) + 1, Len(s)) = p

\* whitespace as str.strip() and the regex class \s see it
SpaceChars == {" ", "\t", "\r", "\n", "\f"}

\* the regex class \w
WordChars == Range(UpperLetters) \cup Range(LowerLetters) \cup Digits \cup {"_"}

\* least index j >= i whose character is not in cs (Len(s)+1 when there is none)
SkipChars(s, i, cs) ==
    CHOOSE j \in i..(Len(s) + 1) :
        /\ \A k \in i..(j - 1) : s[k] \in cs
        /\ (j = Len(s) + 1 \/ s[j] \notin cs)

\* greatest index j <= i whose character is not in cs (0 when there is none)
SkipCharsBack(s, i, cs) ==
    CHOOSE j \in 0..i :
        /\ \A k \in (j + 1)..i : s[k] \in cs
        /\ (j = 0 \/ s[j] \notin cs)

\* str.strip(chars)
StripChars(s, cs) ==
    LET a == SkipChars(s, 1, cs)
        b == SkipCharsBack(s, Len(s), cs)
    IN  IF a > b THEN <<>> ELSE SubSeq(s, a, b)

\* str.strip()
Strip(s) == StripChars(s, SpaceChars)

\* str.split(sep) for a one-character separator: always at least one part
RECURSIVE Split(_, _)
Split(s, sep) ==
    IF \A i \in 1..Len(s) : s[i] # sep
    THEN <<s>>
    ELSE LET i == CHOOSE i \in 1..Len(s) :
                      s[i] = sep /\ \A k \in 1..(i - 1) : s[k] # sep
         IN  <<SubSeq(s, 1, i - 1)>> \o Split(SubSeq(s, i + 1, Len(s)), sep)

\* sep.join(parts)
RECURSIVE Join(_, _)
Join(parts, sep) ==
    IF Len(parts) = 0 THEN <<>>
    ELSE IF Len(parts) = 1 THEN parts[1]
    ELSE parts[1] \o <<sep>> \o Join(Tail(parts), sep)

(***************************************************************************)
(* Dictionaries in insertion order: sequences of <<key, value>>.           *)
(***************************************************************************)
DictKeys(d) == {d[i][1] : i \in 1..Len(d)}

DictKeySeq(d) == [i \in 1..Len(d) |-> d[i][1]]

DictGet(d, k) == d[CHOOSE i \in 1..Len(d) : d[i][1] = k][2]

\* d[k] = v : a new key goes last, an existing key keeps its place
DictSet(d, k, v) ==
    IF k \in DictKeys(d)
    THEN [i \in 1..Len(d) |-> IF d[i][1] = k THEN <<k, v>> ELSE d[i]]
    ELSE Append(d, <<k, v>>)

(***************************************************************************)
(* parse_dependencies (src/package_analyzer.py:92-126).                    *)
(***************************************************************************)
s_dependencies_header == <<"[","d","e","p","e","n","d","e","n","c","i","e","s","]">>
s_version_key == <<"v","e","r","s","i","o","n">>
s_hash == <<"#">>
s_lbracket == <<"[">>
s_lbrace == <<"{">>
s_rbrace == <<"}">>
NoMatch == [matched |-> FALSE, name |-> <<>>, value |-> <<>>]

\* re.match(r'^(\w+)\s*=\s*(.+)$', line): groups 1 and 2
MatchDependency(line) ==
    LET n == SkipChars(line, 1, WordChars)          \* end of \w+ (greedy)
        e == SkipChars(line, n, SpaceChars)         \* position of '='
        v == SkipChars(line, e + 1, SpaceChars)     \* start of (.+) after \s*
    IN  IF n < 2 \/ e > Len(line) THEN NoMatch
        ELSE IF line[e] # "=" \/ e = Len(line) THEN NoMatch
        ELSE [matched |-> TRUE,
              name    |-> SubSeq(line, 1, n - 1),
              \* when only whitespace follows '=', \s* gives one character back to (.+)
              value   |-> IF v <= Len(line) THEN SubSeq(line, v, Len(line))
                          ELSE <<line[Len(line)]>>]

\* index of the closing quote of version\s*=\s*"([^"]+)" matched at i, 0 when no match
VersionMatchAt(s, i) ==
    IF ~StartsWith(SubSeq(s, i, Len(s)), s_version_key) THEN 0
    ELSE LET e == SkipChars(s, i + 7, SpaceChars)
         IN  IF e > Len(s) THEN 0
             ELSE IF s[e] # "=" THEN 0
             ELSE LET q == SkipChars(s, e + 1, SpaceChars)
                  IN  IF q > Len(s) THEN 0
                      ELSE IF s[q] # "\"" THEN 0
                      ELSE LET c == CHOOSE j \in (q + 1)..(Len(s) + 1) :
                                       /\ \A k \in (q + 1)..(j - 1) : s[k] # "\""
                                       /\ (j = Len(s) + 1 \/ s[j] = "\"")
                           IN  IF c > Len(s) \/ c = q + 1 THEN 0 ELSE c

\* re.search(r'version\s*=\s*"([^"]+)"', s): leftmost match, group 1
VersionSearch(s) ==
    IF \A i \in 1..Len(s) : VersionMatchAt(s, i) = 0
    THEN [found |-> FALSE, group |-> <<>>]
    ELSE LET i == CHOOSE i \in 1..Len(s) :
                      VersionMatchAt(s, i) # 0 /\ \A k \in 1..(i - 1) : VersionMatchAt(s, k) = 0
             c == VersionMatchAt(s, i)
             q == SkipCharsBack(s, c - 1, {x \in Range(s) : x # "\""})
         IN  [found |-> TRUE, group |-> SubSeq(s, q + 1, c - 1)]

\* mutant: an inline table is always kept verbatim
DepSpecNoVersion(value) ==
    LET dep_value == Strip(value)
    IN  IF StartsWith(dep_value, s_lbrace) /\ EndsWith(dep_value, s_rbrace)
        THEN dep_value
        ELSE StripChars(dep_value, {"\""})

\* lines 115-124: the spec string stored for match.group(2)
DepSpec(value) ==
    LET dep_value == Strip(value)
    IN  IF StartsWith(dep_value, s_lbrace) /\ EndsWith(dep_value, s_rbrace)
        THEN LET version_match == VersionSearch(dep_value)
             IN  IF version_match.found THEN version_match.group ELSE dep_value
        ELSE StripChars(dep_value, {"\""})

\* mutant: another header clears the flag and the scan goes on
RECURSIVE ScanLinesReenter(_, _, _, _)
ScanLinesReenter(lines, i, in_dependencies_section, dependencies) ==
    IF i > Len(lines) THEN dependencies
    ELSE LET line == Strip(lines[i])
         IN  IF line = <<>> \/ StartsWith(line, s_hash)
             THEN ScanLinesReenter(lines, i + 1, in_dependencies_section, dependencies)
             ELSE IF line = s_dependencies_header
             THEN ScanLinesReenter(lines, i + 1, TRUE, dependencies)
             ELSE IF StartsWith(line, s_lbracket) /\ in_dependencies_section
             THEN ScanLinesReenter(lines, i + 1, FALSE, dependencies)
             ELSE IF in_dependencies_section /\ MatchDependency(line).matched
             THEN LET m == MatchDependency(line)
                  IN  ScanLinesReenter(lines, i + 1, in_dependencies_section,
                                       DictSet(dependencies, m.name, DepSpec(m.value)))
             ELSE ScanLinesReenter(lines, i + 1, in_dependencies_section, dependencies)

\* lines 99-124: the loop over the lines, from line i on
RECURSIVE ScanLines(_, _, _, _)
ScanLines(lines, i, in_dependencies_section, dependencies) ==
    IF i > Len(lines) THEN dependencies
    ELSE LET line == Strip(lines[i])
         IN  IF line = <<>> \/ StartsWith(line, s_hash)
             THEN ScanLines(lines, i + 1, in_dependencies_section, dependencies)
             ELSE IF line = s_dependencies_header
             THEN ScanLines(lines, i + 1, TRUE, dependencies)
             ELSE IF StartsWith(line, s_lbracket) /\ in_dependencies_section
             THEN dependencies                                   \* break
             ELSE IF in_dependencies_section /\ MatchDependency(line).matched
             THEN LET m == MatchDependency(line)
                  IN  ScanLines(lines, i + 1, in_dependencies_section,
                                DictSet(dependencies, m.name, DepSpec(m.value)))
             ELSE ScanLines(lines, i + 1, in_dependencies_section, dependencies)

parse_dependencies(cargo_toml_content) ==
    ScanLines(Split(cargo_toml_content, "\n"), 1, FALSE, <<>>)

(***************************************************************************)
(* Inputs of parse_dependencies checked on their own: every text of at     *)
(* most MaxLines lines drawn from ParseLines.                              *)
(***************************************************************************)
\* '[dependencies]'
l_deps_header == <<"[","d","e","p","e","n","d","e","n","c","i","e","s","]">>
\* '  [dev-dependencies]'
l_dev_header == <<" "," ","[","d","e","v","-","d","e","p","e","n","d","e","n","c","i","e","s","]">>
\* 'a = "1"'
l_quoted == <<"a"," ","="," ","\"","1","\"">>
\* ' a = { version = "2", features = ["x"] }'
l_table_version == <<" ","a"," ","="," ","{"," ","v","e","r","s","i","o","n"," ","="," ","\"","2","\"",","," ","f","e","a","t","u","r","e","s"," ","="," ","[","\"","x","\"","]"," ","}">>
\* 'b = { path = "p" }'
l_table_plain == <<"b"," ","="," ","{"," ","p","a","t","h"," ","="," ","\"","p","\""," ","}">>
\* '# c = "9"'
l_comment == <<"#"," ","c"," ","="," ","\"","9","\"">>
\* 'x-y = "1"'
l_hyphen == <<"x","-","y"," ","="," ","\"","1","\"">>

ParseLines == {l_deps_header, l_dev_header, l_quoted, l_table_version, l_table_plain, l_comment, l_hyphen}

LineSeqs == UNION {[1..n -> ParseLines] : n \in 1..MaxLines}

Texts == {Join(ls, "\n") : ls \in LineSeqs}

NotParsed == [called |-> FALSE, value |-> <<>>]

(***************************************************************************)
(* Values the configuration, the fixture and the network are drawn from.   *)
(***************************************************************************)
s_empty == <<>>
s_root == <<"r","o","o","t">>
s_a == <<"a">>
s_b == <<"b">>
s_B == <<"B">>
s_test_version == <<"t","e","s","t","-","v","e","r","s","i","o","n">>
s_https_prefix == <<"h","t","t","p","s",":","/","/","g","i","t","h","u","b",".","c","o","m","/">>
s_ssh_prefix == <<"g","i","t","@","g","i","t","h","u","b",".","c","o","m",":">>
s_dot_git == <<".","g","i","t">>
s_slash == <<"/">>

\* package names a fixture line can carry
FixtureNames == {s_root, s_a, s_b}
\* package_name: "B" has no fixture line and no manifest declares it
StartNames == {s_root, s_B}
\* filter_substring: "", "A", "oO", "b"
Filters == {s_empty, <<"A">>, <<"o","O">>, s_b}
\* version
Versions == {<<"1">>, <<"2">>}
u_https == <<"h","t","t","p","s",":","/","/","g","i","t","h","u","b",".","c","o","m","/","o","/","r">>
u_ssh == <<"g","i","t","@","g","i","t","h","u","b",".","c","o","m",":","o","/","r",".","g","i","t">>
u_other == <<"h","t","t","p","s",":","/","/","g","i","t","l","a","b",".","c","o","m","/","o","/","r">>
RepoUrls == {u_https, u_ssh, u_other}
s_fixture_path == <<"g",".","t","x","t">>

\* manifests the content API can answer with
\* '[dependencies]\na = "1"\nb = { version = "2" }'
m_ab == <<"[","d","e","p","e","n","d","e","n","c","i","e","s","]","\n","a"," ","="," ","\"","1","\"","\n","b"," ","="," ","{"," ","v","e","r","s","i","o","n"," ","="," ","\"","2","\""," ","}">>
\* '[dependencies]\nroot = "2"\n[dev-dependencies]\na = "1"'
m_root == <<"[","d","e","p","e","n","d","e","n","c","i","e","s","]","\n","r","o","o","t"," ","="," ","\"","2","\"","\n","[","d","e","v","-","d","e","p","e","n","d","e","n","c","i","e","s","]","\n","a"," ","="," ","\"","1","\"">>
\* '[package]\nname = "x"'
m_none == <<"[","p","a","c","k","a","g","e","]","\n","n","a","m","e"," ","="," ","\"","x","\"">>
Manifests == {m_ab, m_root, m_none}

\* what urlopen can do: a JSON body with content, a JSON body without it,
\* HTTPError 404, HTTPError with another status, URLError
Responses ==
    {[kind |-> "ok", content |-> m] : m \in Manifests} \cup
    {[kind |-> k, content |-> <<>>] : k \in {"no_content", "http_404", "http_500", "url_error"}}

required_keys == {"package_name", "repo_url", "mode", "version", "output_image",
                  "filter_substring"}

TestConfigs ==
    {[package_name |-> n, repo_url |-> s_fixture_path, mode |-> "test",
      version |-> v, output_image |-> "graph.png", filter_substring |-> f] :
        n \in StartNames, f \in Filters, v \in {<<"1">>}}

RemoteConfigs ==
    {[package_name |-> n, repo_url |-> u, mode |-> "remote",
      version |-> v, output_image |-> "graph.png", filter_substring |-> f] :
        n \in StartNames, f \in Filters, u \in RepoUrls, v \in Versions}

\* a mapping without filter_substring (rejected by _validate_config)
IncompleteConfig ==
    [package_name |-> s_root, repo_url |-> u_https, mode |-> "remote",
     version |-> <<"1">>, output_image |-> "graph.png"]

ConfigFiles ==
    {[kind |-> "missing", data |-> <<>>], [kind |-> "empty", data |-> <<>>],
     [kind |-> "mapping", data |-> IncompleteConfig]} \cup
    {[kind |-> "mapping", data |-> c] : c \in TestConfigs \cup RemoteConfigs}

\* all sequences over S of length at most n
SeqsUpTo(S, n) == UNION {[1..k -> S] : k \in 0..n}

RECURSIVE SumOver(_, _)
\* sum of Len(f[k]) for k in K
SumOver(f, K) ==
    IF K = {} THEN 0
    ELSE LET k == CHOOSE k \in K : TRUE
         IN  Len(f[k]) + SumOver(f, K \ {k})

\* what read_test_graph can return: package -> list of dependency names
FixtureGraphs ==
    UNION {{g \in [K -> SeqsUpTo(FixtureNames, MaxEdges)] : SumOver(g, K) <= MaxEdges} :
              K \in SUBSET FixtureNames}

\* fixtures over four names, for traversals more than one level deep
s_c == <<"c">>
DeepNames == {s_root, s_a, s_b, s_c}

\* the packages that have a line in such a fixture (c is only ever listed)
DeepKeys == {s_root, s_a, s_b}

\* the fixture with the dependency entries `edges` (<<package, dependency>>, in
\* file order) and a line without dependencies for every other package of K
GraphOfEdges(edges, K) ==
    [k \in K \cup {edges[i][1] : i \in 1..Len(edges)} |->
        LET mine == SelectSeq(edges, LAMBDA e : e[1] = k)
        IN  [i \in 1..Len(mine) |-> mine[i][2]]]

DeepFixtureGraphs ==
    {GraphOfEdges(edges, K) :
        edges \in SeqsUpTo(DeepKeys \X DeepNames, MaxEdges), K \in SUBSET DeepKeys}

DeepTestFiles == {[exists |-> TRUE, graph |-> g] : g \in DeepFixtureGraphs}

DeepFilters == {s_empty, s_b}

DeepTestConfigs ==
    {[package_name |-> s_root, repo_url |-> s_fixture_path, mode |-> "test",
      version |-> <<"1">>, output_image |-> "graph.png", filter_substring |-> f] :
        f \in DeepFilters}

DeepRemoteConfigs ==
    {[package_name |-> n, repo_url |-> u, mode |-> "remote",
      version |-> <<"1">>, output_image |-> "graph.png", filter_substring |-> f] :
        n \in StartNames, f \in DeepFilters, u \in {u_https, u_other}}

NoTestFile == [exists |-> FALSE, graph |-> <<>>]

TestFiles == {NoTestFile} \cup {[exists |-> TRUE, graph |-> g] : g \in FixtureGraphs}

(***************************************************************************)
(* Helpers of the traversal.                                               *)
(***************************************************************************)
\* mutant: the filter is compared without folding the case
shouldSkipCaseSensitive(name, filter_substring) ==
    filter_substring # <<>> /\ IsSubstring(filter_substring, name)

\* mutant: the test for an empty filter is left out
shouldSkipNoEmptyTest(name, filter_substring) ==
    IsSubstring(Lower(filter_substring), Lower(name))

\* mutant: the root package is exempt from the filter
shouldSkipNeverRoot(name, filter_substring) ==
    /\ name # s_root
    /\ filter_substring # <<>>
    /\ IsSubstring(Lower(filter_substring), Lower(name))

\* lines 144-145 and 205-206: the filter test of both loops
shouldSkip(name, filter_substring) ==
    filter_substring # <<>> /\ IsSubstring(Lower(filter_substring), Lower(name))

NonSlash(s) == Range(s) \ {"/"}

\* re.match(r'https://github\.com/([^/]+)/([^/]+)', url)
MatchHttps(url) ==
    LET o1 == Len(s_https_prefix) + 1
        o2 == SkipChars(url, o1, NonSlash(url))
        r2 == SkipChars(url, o2 + 1, NonSlash(url))
    IN  IF StartsWith(url, s_https_prefix) /\ o2 > o1 /\ o2 <= Len(url) /\ r2 > o2 + 1
        THEN [ok |-> TRUE, owner |-> SubSeq(url, o1, o2 - 1), repo |-> SubSeq(url, o2 + 1, r2 - 1)]
        ELSE [ok |-> FALSE, owner |-> <<>>, repo |-> <<>>]

\* re.match(r'git@github\.com:([^/]+)/([^/]+)\.git', url)
MatchSsh(url) ==
    LET o1 == Len(s_ssh_prefix) + 1
        o2 == SkipChars(url, o1, NonSlash(url))
        r2 == SkipChars(url, o2 + 1, NonSlash(url))
        \* ends of a non-empty repo group that ".git" follows inside the run
        ends == {k \in (o2 + 1)..(r2 - 5) : SubSeq(url, k + 1, k + 4) = s_dot_git}
    IN  IF StartsWith(url, s_ssh_prefix) /\ o2 > o1 /\ o2 <= Len(url) /\ ends # {}
        THEN [ok |-> TRUE, owner |-> SubSeq(url, o1, o2 - 1),
              repo |-> SubSeq(url, o2 + 1, CHOOSE k \in ends : \A j \in ends : j <= k)]
        ELSE [ok |-> FALSE, owner |-> <<>>, repo |-> <<>>]

\* ok = FALSE stands for the ValueError of line 66
extract_github_info(repo_url) ==
    IF MatchHttps(repo_url).ok THEN MatchHttps(repo_url) ELSE MatchSsh(repo_url)

\* the outcome of get_cargo_toml_content for what urlopen did:
\* the decoded content, or the exception raised
get_cargo_toml_content(response) ==
    IF response.kind = "ok" THEN [raised |-> "none", content |-> response.content]
    ELSE IF response.kind \in {"no_content", "http_404"}
    THEN [raised |-> "ValueError", content |-> <<>>]
    ELSE [raised |-> "RuntimeError", content |-> <<>>]

\* mutant: the visited check of the dequeued package is left out
AlreadyVisitedNever(current_package, seen) == FALSE

\* lines 138 and 199: current_package in visited
AlreadyVisited(current_package, seen) == current_package \in seen

\* mutant: visited.add(current_package) is left out
MarkVisitedOmitted(seen, current_package) == seen

\* lines 142 and 203: visited.add(current_package)
MarkVisited(seen, current_package) == seen \cup {current_package}

\* mutant: the assignment replaces the dictionary by one with the single key k
GraphSetAlone(g, k, v) == [x \in {k} |-> v]

\* graph[k] = v
GraphSet(g, k, v) == [x \in DOMAIN g \cup {k} |-> IF x = k THEN v ELSE g[x]]

\* mutant: the handler only prints, no record is stored
RemoteFailGraphNoRecord(g, current_package) == g

\* lines 161-163: the handler stores an empty record
RemoteFailGraph(g, current_package) == GraphSet(g, current_package, <<>>)

\* line 211: {dep: "test-version" for dep in dependencies}
RECURSIVE TestRecord(_)
TestRecord(dependencies) ==
    IF dependencies = <<>> THEN <<>>
    ELSE DictSet(TestRecord(SubSeq(dependencies, 1, Len(dependencies) - 1)),
                 dependencies[Len(dependencies)], s_test_version)

\* mutant: only the first dependency of the fixture line is looked up
TestGraphGetFirst(tg, current_package) ==
    IF current_package \in DOMAIN tg /\ tg[current_package] # <<>>
    THEN <<tg[current_package][1]>> ELSE <<>>

\* line 210: test_graph.get(current_package, [])
TestGraphGet(tg, current_package) ==
    IF current_package \in DOMAIN tg THEN tg[current_package] ELSE <<>>

\* mutant: only the first dependency that is not visited is appended
TestNewItemsFirstOnly(dependencies, seen) ==
    LET new == SelectSeq(dependencies, LAMBDA dep : dep \notin seen)
    IN  IF new = <<>> THEN <<>> ELSE <<new[1]>>

\* lines 213-215: the dependencies appended to the queue, in list order
TestNewItems(dependencies, seen) ==
    SelectSeq(dependencies, LAMBDA dep : dep \notin seen)

\* mutant: the dependency is queued with the version its manifest entry declares
RemoteNewItemsDeclared(dependencies, seen, current_version) ==
    LET names == SelectSeq(DictKeySeq(dependencies), LAMBDA dep_name : dep_name \notin seen)
    IN  [i \in 1..Len(names) |-> <<names[i], DictGet(dependencies, names[i])>>]

\* mutant: no dependency is appended to the queue
RemoteNewItemsNone(dependencies, seen, current_version) == <<>>

\* lines 156-158: (dep_name, current_version) for dep_name not in visited
RemoteNewItems(dependencies, seen, current_version) ==
    LET names == SelectSeq(DictKeySeq(dependencies), LAMBDA dep_name : dep_name \notin seen)
    IN  [i \in 1..Len(names) |-> <<names[i], current_version>>]

\* mutant: the analysis tests the number of packages before the dependencies
print_graph_infoCountFirst(g) ==
    LET total_packages == Cardinality(DOMAIN g)
        total_dependencies == SumOver(g, DOMAIN g)
        has_dependencies == \E k \in DOMAIN g : g[k] # <<>>
    IN  [printed |-> TRUE,
         total_packages |-> total_packages,
         total_dependencies |-> total_dependencies,
         structure |-> [k \in DOMAIN g |-> DictKeys(g[k])],
         analysis |-> IF total_packages = 1 THEN "root_only"
                      ELSE IF ~has_dependencies THEN "no_dependencies"
                      ELSE "transitive"]

\* lines 226-248: the counts, the listing and the analysis line printed
print_graph_info(g) ==
    LET total_packages == Cardinality(DOMAIN g)
        total_dependencies == SumOver(g, DOMAIN g)
        has_dependencies == \E k \in DOMAIN g : g[k] # <<>>
    IN  [printed |-> TRUE,
         total_packages |-> total_packages,
         total_dependencies |-> total_dependencies,
         structure |-> [k \in DOMAIN g |-> DictKeys(g[k])],
         analysis |-> IF ~has_dependencies THEN "no_dependencies"
                      ELSE IF total_packages = 1 THEN "root_only"
                      ELSE "transitive"]

NoReport == [printed |-> FALSE]

(***************************************************************************)
(* read_test_graph (lines 167-187) on the text of the file.                *)
(***************************************************************************)
\* str.split() without arguments: the maximal runs of non-whitespace characters
RECURSIVE SplitWhitespace(_)
SplitWhitespace(s) ==
    LET a == SkipChars(s, 1, SpaceChars)
        b == SkipChars(s, a, Range(s) \ SpaceChars)
    IN  IF a > Len(s) THEN <<>>
        ELSE <<SubSeq(s, a, b - 1)>> \o SplitWhitespace(SubSeq(s, b, Len(s)))

\* mutant: parts[1] is taken as one dependency name, without split(',')
RECURSIVE ReadLinesNoSplit(_, _)
ReadLinesNoSplit(lines, g) ==
    IF lines = <<>> THEN g
    ELSE LET line == Strip(Head(lines))
             parts == SplitWhitespace(line)
         IN  IF line = <<>> \/ StartsWith(line, s_hash)
             THEN ReadLinesNoSplit(Tail(lines), g)
             ELSE IF Len(parts) >= 1
             THEN ReadLinesNoSplit(Tail(lines),
                            GraphSet(g, parts[1],
                                     IF Len(parts) > 1 THEN <<parts[2]>> ELSE <<>>))
             ELSE ReadLinesNoSplit(Tail(lines), g)

\* lines 171-180: the loop over the lines of the file
RECURSIVE ReadLines(_, _)
ReadLines(lines, g) ==
    IF lines = <<>> THEN g
    ELSE LET line == Strip(Head(lines))
             parts == SplitWhitespace(line)
         IN  IF line = <<>> \/ StartsWith(line, s_hash)
             THEN ReadLines(Tail(lines), g)
             ELSE IF Len(parts) >= 1
             THEN ReadLines(Tail(lines),
                            GraphSet(g, parts[1],
                                     IF Len(parts) > 1 THEN Split(parts[2], ",") ELSE <<>>))
             ELSE ReadLines(Tail(lines), g)

\* lines 167-187 for a file that exists and decodes
read_test_graph(content) == ReadLines(Split(content, "\n"), <<>>)

\* package names of a fixture written from an adjacency map
s_x_y == <<"x","-","y">>
s_B_2 == <<"B","_","2">>
PackageNames == {s_root, s_x_y, s_B_2}

\* every adjacency map: package name -> set of dependency names
AdjacencyMaps == UNION {[K -> SUBSET PackageNames] : K \in SUBSET PackageNames}

\* the orders in which the members of a set can be written
Orders(S) == {f \in [1..Cardinality(S) -> S] : \A i, j \in 1..Cardinality(S) : f[i] = f[j] => i = j}

\* one line of a fixture: NAME, or NAME DEP1,DEP2,...
FixtureLine(name, deps) ==
    IF deps = <<>> THEN name ELSE name \o <<" ">> \o Join(deps, ",")

\* the texts a map can be written as: one line per package, any order of the
\* packages, any order of the dependency names on a line
FixtureTexts(adj) ==
    {Join([i \in 1..Len(ks) |-> FixtureLine(ks[i], ds[ks[i]])], "\n") :
        ks \in Orders(DOMAIN adj),
        ds \in {c \in [DOMAIN adj -> UNION {Orders(T) : T \in SUBSET PackageNames}] :
                   \A k \in DOMAIN adj : Range(c[k]) = adj[k]}}

(***************************************************************************)
(* main.py: ConfigValidator and ConfigManager.                             *)
(* A YAML value is [type, val]: a string (sequence of characters), an      *)
(* integer or null; a document is null, a list or a dict of such values.   *)
(***************************************************************************)
Str(chars) == [type |-> "str", val |-> chars]
IntValue(n) == [type |-> "int", val |-> n]
Null == [type |-> "none", val |-> <<>>]

s_local == <<"l","o","c","a","l">>
s_remote == <<"r","e","m","o","t","e">>
s_test == <<"t","e","s","t">>
s_Local == <<"L","o","c","a","l">>
s_graph_png == <<"g","r","a","p","h",".","p","n","g">>
s_graph_jpg == <<"g","r","a","p","h",".","j","p","g">>
s_dot_png == <<".","p","n","g">>
s_png == <<"p","n","g">>
s_blank == <<" ">>

\* main.py lines 14-17
validate_package_name(name) == name.type = "str" /\ Strip(name.val) # <<>>

\* main.py lines 19-22
validate_repo_url(url) == url.type = "str" /\ Strip(url.val) # <<>>

\* mutant: the mode of package_analyzer.py is accepted as well
validate_modeWithTest(mode) == mode \in {Str(s_local), Str(s_remote), Str(s_test)}

\* main.py lines 24-28: mode in ['local', 'remote']
validate_mode(mode) == mode \in {Str(s_local), Str(s_remote)}

\* main.py lines 30-33
validate_version(version) == version.type = "str" /\ Strip(version.val) # <<>>

\* main.py lines 35-38
validate_output_image(filename) == filename.type = "str" /\ EndsWith(filename.val, s_dot_png)

\* main.py lines 40-43
validate_filter_substring(substring) == substring.type = "str"

\* main.py lines 51-54: ConfigManager.required_keys
manager_required_keys == {"package_name", "repo_url", "mode", "version", "output_image",
                          "filter_substring"}

\* main.py lines 74-88: TRUE when no validator raises
validate_values(items) ==
    /\ validate_package_name(items["package_name"])
    /\ validate_repo_url(items["repo_url"])
    /\ validate_mode(items["mode"])
    /\ validate_version(items["version"])
    /\ validate_output_image(items["output_image"])
    /\ validate_filter_substring(items["filter_substring"])

\* the mappings a configuration file can hold
FullMappings ==
    {[package_name |-> n, repo_url |-> u, mode |-> m, version |-> v, output_image |-> o,
      filter_substring |-> f] :
        n \in {Str(s_root), Str(s_blank), IntValue(7)},
        u \in {Str(u_https), Str(s_empty)},
        m \in {Str(s_local), Str(s_remote), Str(s_test), Str(s_Local)},
        v \in {Str(<<"1">>), IntValue(1)},
        o \in {Str(s_graph_png), Str(s_graph_jpg), Str(s_dot_png), Str(s_png)},
        f \in {Str(s_empty), Str(s_a), Null}}

\* a mapping without the key k
Without(items, k) == [x \in DOMAIN items \ {k} |-> items[x]]

\* a mapping with one more key
WithExtra(items) == [x \in DOMAIN items \cup {"comment"} |->
                        IF x = "comment" THEN Str(s_a) ELSE items[x]]

MainMappings ==
    FullMappings \cup
    {Without(c, k) : c \in {c \in FullMappings : c.package_name = Str(s_root)},
                     k \in manager_required_keys} \cup
    {WithExtra(c) : c \in {c \in FullMappings : c.version = Str(<<"1">>)}}

\* the file at config_path: absent, not YAML, or a YAML document
YamlFiles ==
    {[kind |-> "missing"], [kind |-> "bad_yaml"],
     [kind |-> "document", document |-> Null],
     [kind |-> "document", document |-> [type |-> "list", items |-> <<>>]]} \cup
    {[kind |-> "document", document |-> [type |-> "dict", items |-> c]] : c \in MainMappings}

(***************************************************************************)
(* run(): configuration and dispatch.                                      *)
(***************************************************************************)
bfs_vars == <<graph, visited, queue, order, assigned, enqueued, cycle_log, skip_log,
              fetch_log>>
parse_vars == <<text, parsed>>
fixture_vars == <<adjacency, fixture_text, read_back>>
main_vars == <<argv_len, yaml_file, config, printed_config>>
env_vars == <<config_file, test_file>>

\* lines 46-53 (all values of the modelled files are strings)
ValidConfig(data) == required_keys \subseteq DOMAIN data

\* lines 255 and 28-44, with the handlers of lines 272-274
LoadConfig ==
    /\ pc = "start"
    /\ IF config_file.kind = "mapping" /\ ValidConfig(config_file.data)
       THEN /\ config_data' = config_file.data
            /\ pc' = "loaded"
            /\ UNCHANGED exit_code
       ELSE /\ pc' = "exit"
            /\ exit_code' = 1
            /\ UNCHANGED config_data
    /\ UNCHANGED <<env_vars, test_graph, bfs_vars, report, parse_vars,
                   fixture_vars, main_vars>>

\* lines 260-262 and 167-187, with the handlers of lines 272-274
ReadTestGraph ==
    /\ pc = "loaded"
    /\ config_data.mode = "test"
    /\ IF test_file.exists
       THEN /\ test_graph' = test_file.graph
            /\ pc' = "test_init"
            /\ UNCHANGED exit_code
       ELSE /\ pc' = "exit"
            /\ exit_code' = 1
            /\ UNCHANGED test_graph
    /\ UNCHANGED <<env_vars, config_data, bfs_vars, report, parse_vars,
                   fixture_vars, main_vars>>

(***************************************************************************)
(* build_test_graph_bfs (lines 189-218).                                   *)
(***************************************************************************)
\* lines 190-194
BeginTestBfs ==
    /\ pc = "test_init"
    /\ graph' = <<>>
    /\ visited' = {}
    /\ queue' = <<config_data.package_name>>
    /\ enqueued' = <<config_data.package_name>>
    /\ pc' = "test_loop"
    /\ UNCHANGED <<env_vars, config_data, test_graph, order, assigned, cycle_log,
                   skip_log, fetch_log, report, exit_code, parse_vars,
                   fixture_vars, main_vars>>

\* mutant: a package found in visited is dropped from the queue without a message
TestCycleNoRecord ==
    /\ pc = "test_loop"
    /\ queue # <<>>
    /\ AlreadyVisited(Head(queue), visited)
    /\ queue' = Tail(queue)
    /\ UNCHANGED <<env_vars, config_data, pc, test_graph, graph, visited, order, assigned,
                   enqueued, cycle_log, skip_log, fetch_log, report, exit_code, parse_vars,
                   fixture_vars, main_vars>>

\* lines 197-201
TestCycle ==
    /\ pc = "test_loop"
    /\ queue # <<>>
    /\ AlreadyVisited(Head(queue), visited)
    /\ queue' = Tail(queue)
    /\ cycle_log' = Append(cycle_log, Head(queue))
    /\ UNCHANGED <<env_vars, config_data, pc, test_graph, graph, visited, order, assigned,
                   enqueued, skip_log, fetch_log, report, exit_code, parse_vars,
                   fixture_vars, main_vars>>

\* lines 197-208
TestSkip ==
    /\ pc = "test_loop"
    /\ queue # <<>>
    /\ ~AlreadyVisited(Head(queue), visited)
    /\ shouldSkip(Head(queue), config_data.filter_substring)
    /\ queue' = Tail(queue)
    /\ visited' = MarkVisited(visited, Head(queue))
    /\ order' = Append(order, Head(queue))
    /\ skip_log' = Append(skip_log, Head(queue))
    /\ UNCHANGED <<env_vars, config_data, pc, test_graph, graph, assigned, enqueued,
                   cycle_log, fetch_log, report, exit_code, parse_vars,
                   fixture_vars, main_vars>>

\* mutant: the dependencies are put at the front of the queue (depth first)
TestExpandDepthFirst ==
    /\ pc = "test_loop"
    /\ queue # <<>>
    /\ ~AlreadyVisited(Head(queue), visited)
    /\ ~shouldSkip(Head(queue), config_data.filter_substring)
    /\ LET current_package == Head(queue)
           dependencies == TestGraphGet(test_graph, current_package)
           new_items == TestNewItems(dependencies, MarkVisited(visited, current_package))
       IN  /\ visited' = MarkVisited(visited, current_package)
           /\ order' = Append(order, current_package)
           /\ graph' = GraphSet(graph, current_package, TestRecord(dependencies))
           /\ assigned' = Append(assigned, current_package)
           /\ queue' = new_items \o Tail(queue)
           /\ enqueued' = enqueued \o new_items
    /\ UNCHANGED <<env_vars, config_data, pc, test_graph, cycle_log, skip_log, fetch_log,
                   report, exit_code, parse_vars, fixture_vars, main_vars>>

\* lines 197-216
TestExpand ==
    /\ pc = "test_loop"
    /\ queue # <<>>
    /\ ~AlreadyVisited(Head(queue), visited)
    /\ ~shouldSkip(Head(queue), config_data.filter_substring)
    /\ LET current_package == Head(queue)
           dependencies == TestGraphGet(test_graph, current_package)
           new_items == TestNewItems(dependencies, MarkVisited(visited, current_package))
       IN  /\ visited' = MarkVisited(visited, current_package)
           /\ order' = Append(order, current_package)
           /\ graph' = GraphSet(graph, current_package, TestRecord(dependencies))
           /\ assigned' = Append(assigned, current_package)
           /\ queue' = Tail(queue) \o new_items
           /\ enqueued' = enqueued \o new_items
    /\ UNCHANGED <<env_vars, config_data, pc, test_graph, cycle_log, skip_log, fetch_log,
                   report, exit_code, parse_vars,
                   fixture_vars, main_vars>>

\* lines 196 and 218: the queue is empty, the graph is returned
TestReturn ==
    /\ pc = "test_loop"
    /\ queue = <<>>
    /\ pc' = "report"
    /\ UNCHANGED <<env_vars, config_data, test_graph, bfs_vars, report, exit_code,
                   parse_vars,
                   fixture_vars, main_vars>>

(***************************************************************************)
(* build_dependency_graph_bfs (lines 128-165).                             *)
(***************************************************************************)
\* lines 264-266 and 129-133
BeginRemoteBfs ==
    /\ pc = "loaded"
    /\ config_data.mode # "test"
    /\ graph' = <<>>
    /\ visited' = {}
    /\ queue' = <<<<config_data.package_name, config_data.version>>>>
    /\ enqueued' = <<<<config_data.package_name, config_data.version>>>>
    /\ pc' = "remote_loop"
    /\ UNCHANGED <<env_vars, config_data, test_graph, order, assigned, cycle_log,
                   skip_log, fetch_log, report, exit_code, parse_vars,
                   fixture_vars, main_vars>>

\* lines 136-140
RemoteCycle ==
    /\ pc = "remote_loop"
    /\ queue # <<>>
    /\ AlreadyVisited(Head(queue)[1], visited)
    /\ queue' = Tail(queue)
    /\ cycle_log' = Append(cycle_log, Head(queue)[1])
    /\ UNCHANGED <<env_vars, config_data, pc, test_graph, graph, visited, order, assigned,
                   enqueued, skip_log, fetch_log, report, exit_code, parse_vars,
                   fixture_vars, main_vars>>

\* lines 136-147
RemoteSkip ==
    /\ pc = "remote_loop"
    /\ queue # <<>>
    /\ ~AlreadyVisited(Head(queue)[1], visited)
    /\ shouldSkip(Head(queue)[1], config_data.filter_substring)
    /\ queue' = Tail(queue)
    /\ visited' = MarkVisited(visited, Head(queue)[1])
    /\ order' = Append(order, Head(queue)[1])
    /\ skip_log' = Append(skip_log, Head(queue)[1])
    /\ UNCHANGED <<env_vars, config_data, pc, test_graph, graph, assigned, enqueued,
                   cycle_log, fetch_log, report, exit_code, parse_vars,
                   fixture_vars, main_vars>>

\* lines 136-150 and 161-163: extract_github_info raises inside the try
RemoteBadUrl ==
    /\ pc = "remote_loop"
    /\ queue # <<>>
    /\ ~AlreadyVisited(Head(queue)[1], visited)
    /\ ~shouldSkip(Head(queue)[1], config_data.filter_substring)
    /\ ~extract_github_info(config_data.repo_url).ok
    /\ LET current_package == Head(queue)[1]
       IN  /\ visited' = MarkVisited(visited, current_package)
           /\ order' = Append(order, current_package)
           /\ graph' = RemoteFailGraph(graph, current_package)
           /\ assigned' = Append(assigned, current_package)
           /\ queue' = Tail(queue)
    /\ UNCHANGED <<env_vars, config_data, pc, test_graph, enqueued, cycle_log, skip_log,
                   fetch_log, report, exit_code, parse_vars,
                   fixture_vars, main_vars>>

\* lines 136-163: one request is issued; what comes back is the network's choice
RemoteFetch(response) ==
    /\ pc = "remote_loop"
    /\ queue # <<>>
    /\ ~AlreadyVisited(Head(queue)[1], visited)
    /\ ~shouldSkip(Head(queue)[1], config_data.filter_substring)
    /\ extract_github_info(config_data.repo_url).ok
    /\ LET current_package == Head(queue)[1]
           current_version == Head(queue)[2]
           info == extract_github_info(config_data.repo_url)
           got == get_cargo_toml_content(response)
           dependencies == parse_dependencies(got.content)
           new_items == RemoteNewItems(dependencies, MarkVisited(visited, current_package),
                                       current_version)
       IN  /\ visited' = MarkVisited(visited, current_package)
           /\ order' = Append(order, current_package)
           /\ fetch_log' = Append(fetch_log,
                                  [package |-> current_package, owner |-> info.owner,
                                   repo |-> info.repo, ref |-> current_version,
                                   response |-> response])
           /\ assigned' = Append(assigned, current_package)
           /\ IF got.raised = "none"
              THEN /\ graph' = GraphSet(graph, current_package, dependencies)
                   /\ queue' = Tail(queue) \o new_items
                   /\ enqueued' = enqueued \o new_items
              ELSE /\ graph' = RemoteFailGraph(graph, current_package)
                   /\ queue' = Tail(queue)
                   /\ UNCHANGED enqueued
    /\ UNCHANGED <<env_vars, config_data, pc, test_graph, cycle_log, skip_log, report,
                   exit_code, parse_vars,
                   fixture_vars, main_vars>>

RemoteFetchOk == \E m \in Manifests : RemoteFetch([kind |-> "ok", content |-> m])

RemoteFetchFail ==
    \E r \in Responses : r.kind # "ok" /\ RemoteFetch(r)

\* lines 135 and 165
RemoteReturn ==
    /\ pc = "remote_loop"
    /\ queue = <<>>
    /\ pc' = "report"
    /\ UNCHANGED <<env_vars, config_data, test_graph, bfs_vars, report, exit_code,
                   parse_vars,
                   fixture_vars, main_vars>>

\* lines 268-270 and 220-248; run() returns and the process ends with status 0
PrintGraphInfo ==
    /\ pc = "report"
    /\ report' = print_graph_info(graph)
    /\ pc' = "done"
    /\ exit_code' = 0
    /\ UNCHANGED <<env_vars, config_data, test_graph, bfs_vars, parse_vars,
                   fixture_vars, main_vars>>

(***************************************************************************)
(* parse_dependencies applied to a text on its own.                        *)
(***************************************************************************)
ParseDependencies ==
    /\ pc = "parse"
    /\ parsed' = [called |-> TRUE, value |-> parse_dependencies(text)]
    /\ pc' = "parsed"
    /\ UNCHANGED <<env_vars, config_data, test_graph, bfs_vars, report, exit_code, text,
                   fixture_vars, main_vars>>

(***************************************************************************)
(* read_test_graph applied to a fixture text on its own.                   *)
(***************************************************************************)
ReadFixture ==
    /\ pc = "fixture"
    /\ read_back' = [done |-> TRUE, graph |-> read_test_graph(fixture_text)]
    /\ pc' = "fixture_read"
    /\ UNCHANGED <<env_vars, config_data, test_graph, bfs_vars, report, exit_code,
                   parse_vars, adjacency, fixture_text, main_vars>>

(***************************************************************************)
(* main.py: main() (lines 98-119) and the pipeline of ConfigManager.       *)
(***************************************************************************)
main_frame == <<env_vars, config_data, test_graph, bfs_vars, report, parse_vars,
                fixture_vars, argv_len, yaml_file>>

\* lines 100-102
MainUsage ==
    /\ pc = "main_start"
    /\ argv_len # 2
    /\ pc' = "main_exit"
    /\ exit_code' = 1
    /\ UNCHANGED <<main_frame, config, printed_config>>

\* lines 56-65, with the handlers of lines 114-119
MainLoadConfig ==
    /\ pc = "main_start"
    /\ argv_len = 2
    /\ IF yaml_file.kind = "document"
       THEN /\ config' = yaml_file.document
            /\ pc' = "main_loaded"
            /\ UNCHANGED exit_code
       ELSE /\ pc' = "main_exit"
            /\ exit_code' = 1
            /\ UNCHANGED config
    /\ UNCHANGED <<main_frame, printed_config>>

\* lines 67-72, with the handlers of lines 114-119: a document that is no dict has
\* no keys() (AttributeError), a dict may miss keys (ConfigError)
MainValidateRequiredKeys ==
    /\ pc = "main_loaded"
    /\ IF config.type = "dict" /\ manager_required_keys \subseteq DOMAIN config.items
       THEN /\ pc' = "main_keys"
            /\ UNCHANGED exit_code
       ELSE /\ pc' = "main_exit"
            /\ exit_code' = 1
    /\ UNCHANGED <<main_frame, config, printed_config>>

\* lines 74-88, with the handlers of lines 114-119
MainValidateValues ==
    /\ pc = "main_keys"
    /\ IF validate_values(config.items)
       THEN /\ pc' = "main_values"
            /\ UNCHANGED exit_code
       ELSE /\ pc' = "main_exit"
            /\ exit_code' = 1
    /\ UNCHANGED <<main_frame, config, printed_config>>

\* lines 90-95; main() returns and the process ends with status 0
MainPrintConfig ==
    /\ pc = "main_values"
    /\ printed_config' = TRUE
    /\ pc' = "main_done"
    /\ exit_code' = 0
    /\ UNCHANGED <<main_frame, config>>

(***************************************************************************)
(* Specifications.                                                         *)
(***************************************************************************)
\* main.py line 50: self.config = {}
EmptyDict == [type |-> "dict", items |-> <<>>]

NotRead == [done |-> FALSE, graph |-> <<>>]

\* no fixture text of its own is under study
NoFixture == adjacency = <<>> /\ fixture_text = <<>>

\* main.py is not the program run
NoMain == argv_len = 0 /\ yaml_file = [kind |-> "missing"]

InitRun ==
    /\ config_data = <<>>
    /\ test_graph = <<>>
    /\ graph = <<>>
    /\ visited = {}
    /\ queue = <<>>
    /\ order = <<>>
    /\ assigned = <<>>
    /\ enqueued = <<>>
    /\ cycle_log = <<>>
    /\ skip_log = <<>>
    /\ fetch_log = <<>>
    /\ report = NoReport
    /\ exit_code = -1
    /\ config = EmptyDict
    /\ printed_config = FALSE
    /\ read_back = NotRead

\* a run of the analyzer: any configuration file, any fixture
Init ==
    /\ config_file \in ConfigFiles
    /\ test_file \in IF config_file.kind = "mapping" /\ config_file.data.mode = "test"
                     THEN TestFiles ELSE {NoTestFile}
    /\ pc = "start"
    /\ InitRun
    /\ text = <<>>
    /\ parsed = NotParsed
    /\ NoFixture
    /\ NoMain

Next ==
    \/ LoadConfig
    \/ ReadTestGraph
    \/ BeginTestBfs
    \/ TestCycle
    \/ TestSkip
    \/ TestExpand
    \/ TestReturn
    \/ BeginRemoteBfs
    \/ RemoteCycle
    \/ RemoteSkip
    \/ RemoteBadUrl
    \/ RemoteFetchOk
    \/ RemoteFetchFail
    \/ RemoteReturn
    \/ PrintGraphInfo

Spec == Init /\ [][Next]_vars

\* parse_dependencies alone, on every text of Texts
InitParse ==
    /\ config_file = [kind |-> "missing", data |-> <<>>]
    /\ test_file = NoTestFile
    /\ pc = "parse"
    /\ InitRun
    /\ text \in Texts
    /\ parsed = NotParsed
    /\ NoFixture
    /\ NoMain

NextParse == ParseDependencies

SpecParse == InitParse /\ [][NextParse]_vars

TestLoopStep == TestCycle \/ TestSkip \/ TestExpand \/ TestReturn

\* the interpreter runs the loop of build_test_graph_bfs: an iteration that can be
\* taken is taken
FairSpec == Init /\ [][Next]_vars /\ WF_vars(TestLoopStep)

\* read_test_graph alone, on every text an adjacency map can be written as
InitFixture ==
    /\ config_file = [kind |-> "missing", data |-> <<>>]
    /\ test_file = NoTestFile
    /\ pc = "fixture"
    /\ InitRun
    /\ text = <<>>
    /\ parsed = NotParsed
    /\ adjacency \in AdjacencyMaps
    /\ fixture_text \in FixtureTexts(adjacency)
    /\ NoMain

NextFixture == ReadFixture

SpecFixture == InitFixture /\ [][NextFixture]_vars

\* runs of the analyzer on fixtures over four names (test mode) and on the remote
\* source, from a reduced set of configurations
InitDeep ==
    /\ config_file \in {[kind |-> "mapping", data |-> c] :
                           c \in DeepTestConfigs \cup DeepRemoteConfigs}
    /\ test_file \in IF config_file.data.mode = "test" THEN DeepTestFiles ELSE {NoTestFile}
    /\ pc = "start"
    /\ InitRun
    /\ text = <<>>
    /\ parsed = NotParsed
    /\ NoFixture
    /\ NoMain

SpecDeep == InitDeep /\ [][Next]_vars

\* a run of main.py: any number of arguments, any file at config_path
InitMain ==
    /\ config_file = [kind |-> "missing", data |-> <<>>]
    /\ test_file = NoTestFile
    /\ pc = "main_start"
    /\ InitRun
    /\ text = <<>>
    /\ parsed = NotParsed
    /\ NoFixture
    /\ argv_len \in {1, 2, 3}
    /\ yaml_file \in IF argv_len = 2 THEN YamlFiles ELSE {[kind |-> "missing"]}

NextMain ==
    \/ MainUsage
    \/ MainLoadConfig
    \/ MainValidateRequiredKeys
    \/ MainValidateValues
    \/ MainPrintConfig

SpecMain == InitMain /\ [][NextMain]_vars

(***************************************************************************)
(* Claims.                                                                 *)
(***************************************************************************)
Loaded == pc \in {"loaded", "test_init", "test_loop", "remote_loop", "report", "done"}

TestMode == Loaded /\ config_data.mode = "test"

RemoteMode == Loaded /\ config_data.mode # "test"

\* number of dependency entries of the fixture
TestEdgeCount == SumOver(test_graph, DOMAIN test_graph)

\* C1: for every fixture (cycles, self-dependencies, repeated names, names without
\* a line), every root and every filter, build_test_graph_bfs reaches the empty
\* queue and returns.  The loop does one dequeue per iteration, and the dequeues
\* done plus the entries still queued never exceed 1 + the number of dependency
\* entries of the fixture; and under the interpreter's progress every run that
\* entered the loop reaches the return.
C1_TestBfsTerminates ==
    /\ [](pc = "test_loop" =>
            Len(order) + Len(cycle_log) + Len(queue) <= 1 + TestEdgeCount)
    /\ (pc = "test_loop" ~> pc = "report")

\* a traversal of a fixture with a cycle through the root, a repeated dependency
\* name or a dependency without a line of its own has returned
C1_Witness ==
    /\ pc = "report"
    /\ TestMode
    /\ Len(order) >= 2
    /\ \E p \in DOMAIN test_graph : \E i \in 1..Len(test_graph[p]) :
          LET d == test_graph[p][i]
          IN  /\ d \in DOMAIN graph
              /\ \/ config_data.package_name \in Range(TestGraphGet(test_graph, d))
                 \/ d \notin DOMAIN test_graph
                 \/ \E j \in 1..Len(test_graph[p]) : j # i /\ test_graph[p][j] = d

NoDuplicates(seq) == \A i, j \in 1..Len(seq) : i # j => seq[i] # seq[j]

IndexOf(seq, x) == CHOOSE i \in 1..Len(seq) : seq[i] = x

FetchedPackages == [i \in 1..Len(fetch_log) |-> fetch_log[i].package]

InLoop == pc \in {"test_loop", "remote_loop"}

\* the name at the head of the queue
HeadName == IF pc = "remote_loop" THEN Head(queue)[1] ELSE Head(queue)

\* C2: in a traversal of either mode each package name passes the visited check
\* at most once: it is added to visited once, fetched (or looked up) at most once
\* and graph[name] is assigned at most once; a package whose fetch failed is not
\* fetched again.
C2_ProcessedAtMostOnce ==
    /\ NoDuplicates(order)
    /\ Cardinality(visited) = Len(order)
    /\ NoDuplicates(assigned)
    /\ NoDuplicates(FetchedPackages)
    /\ Len(fetch_log) <= Len(assigned)
    /\ Range(assigned) = DOMAIN graph

\* a package whose fetch failed came off the queue a second time and was not
\* fetched again
C2_Witness ==
    /\ RemoteMode
    /\ \E i \in 1..Len(fetch_log) :
          /\ fetch_log[i].response.kind # "ok"
          /\ fetch_log[i].package \in Range(cycle_log)

\* C3 (the claim as stated): when a package that declares an already-visited
\* package is expanded, the already-visited package is not put on the queue and
\* not fetched again, and by the time the traversal returns that encounter has
\* been recorded as a cycle observation.
C3_BackEdgeIsObserved ==
    /\ [][InLoop /\ queue # <<>> =>
            \A k \in (Len(enqueued) + 1)..Len(enqueued') :
                (IF pc = "remote_loop" THEN enqueued'[k][1] ELSE enqueued'[k])
                    \notin visited']_vars
    /\ [](NoDuplicates(FetchedPackages))
    /\ [](pc = "report" =>
            \A p \in DOMAIN graph : \A d \in DictKeys(graph[p]) :
                (d \in Range(order) /\ IndexOf(order, d) < IndexOf(order, p))
                    => d \in Range(cycle_log))

\* the filter of the run, and whether a name contains it without regard to case
MatchesFilter(name, f) ==
    /\ f # <<>>
    /\ \E i \in 0..(Len(name) - Len(f)) :
          \A j \in 1..Len(f) : LowerChar(name[i + j]) = LowerChar(f[j])

\* the record an expanded package must carry: its fixture line, or the manifest
\* its fetch returned
DeclaredNames(p) ==
    IF config_data.mode = "test" THEN Range(TestGraphGet(test_graph, p))
    ELSE LET i == IndexOf(FetchedPackages, p)
         IN  IF p \in Range(FetchedPackages) /\ fetch_log[i].response.kind = "ok"
             THEN DictKeys(parse_dependencies(fetch_log[i].response.content))
             ELSE {}

\* C4: with a non-empty filter, a package whose name contains the filter
\* (case-insensitively) is never a graph key, never fetched, and the step that
\* dequeues it puts it in visited and enqueues nothing; it stays listed in the
\* record of every expanded package that declares it.
C4_FilteredNeverExpanded ==
    /\ [](Loaded =>
            /\ \A n \in visited \cup DOMAIN graph \cup Range(FetchedPackages) :
                  MatchesFilter(n, config_data.filter_substring) =>
                      /\ n \notin DOMAIN graph
                      /\ n \notin Range(FetchedPackages)
                      /\ n \notin Range(assigned)
            /\ \A p \in DOMAIN graph : DictKeys(graph[p]) = DeclaredNames(p))
    /\ [][(InLoop /\ queue # <<>> /\ HeadName \notin visited
              /\ MatchesFilter(HeadName, config_data.filter_substring)) =>
            /\ HeadName \in visited'
            /\ enqueued' = enqueued
            /\ queue' = Tail(queue)
            /\ graph' = graph
            /\ fetch_log' = fetch_log]_vars

\* a filtered package has been dequeued and is listed in the record of an
\* expanded parent
C4_Witness ==
    /\ Loaded
    /\ \E n \in visited :
          /\ MatchesFilter(n, config_data.filter_substring)
          /\ n \in Range(skip_log)
          /\ \E p \in DOMAIN graph : n \in DictKeys(graph[p])

ProbeNames == FixtureNames \cup StartNames \cup
              {<<"S","e","r","d","e">>, <<"s","e","r","d","e">>}

ProbeFilters == Filters \cup {<<"S","E","R">>, <<"s","e","r">>, <<"a","b">>}

\* the decision on names and filters in several letter cases
SkipOnProbes ==
    \A n \in ProbeNames : \A f \in ProbeFilters :
        /\ shouldSkip(n, f) = MatchesFilter(n, f)
        /\ shouldSkip(n, f) = shouldSkip(Upper(n), f)
        /\ shouldSkip(n, f) = shouldSkip(n, Upper(f))
        /\ shouldSkip(n, f) = shouldSkip(Lower(n), Lower(f))

\* C5: a package is skipped iff the filter is non-empty and lower(filter) is a
\* substring of lower(name); the decision does not change with the letter case of
\* either argument; with an empty filter nothing is skipped and every dequeued
\* unvisited package is a graph key.
C5_SkipDecision ==
    /\ SkipOnProbes
    /\ Loaded =>
          /\ \A n \in visited :
                n \in Range(skip_log) <=> MatchesFilter(n, config_data.filter_substring)
          /\ \A n \in visited :
                n \in DOMAIN graph <=> ~MatchesFilter(n, config_data.filter_substring)
          /\ config_data.filter_substring = <<>> =>
                (skip_log = <<>> /\ DOMAIN graph = visited)

\* an empty filter let every dequeued package through, and another run skipped a
\* package whose name matches only after folding the case
C5_Witness ==
    /\ Loaded
    /\ \/ /\ config_data.filter_substring = <<>>
          /\ Cardinality(DOMAIN graph) >= 3
       \/ /\ \E n \in Range(skip_log) :
                ~IsSubstring(config_data.filter_substring, n)
          /\ DOMAIN graph # {}

\* the step issued a request and it failed
FetchFailsStep ==
    /\ pc = "remote_loop"
    /\ Len(fetch_log') = Len(fetch_log) + 1
    /\ fetch_log'[Len(fetch_log')].response.kind # "ok"

\* C6: when the fetch for a dequeued unfiltered package x fails (404, another
\* status, no content field, network error), the step stores graph[x] = {},
\* enqueues nothing, leaves the rest of the queue and every other record as they
\* were and stays in the loop with the process running; the record of a failed
\* package stays empty.
C6_FetchFailureAbsorbed ==
    /\ [][FetchFailsStep =>
            LET x == Head(queue)[1]
            IN  /\ fetch_log'[Len(fetch_log')].package = x
                /\ x \notin DOMAIN graph
                /\ DOMAIN graph' = DOMAIN graph \cup {x}
                /\ graph'[x] = <<>>
                /\ \A k \in DOMAIN graph : graph'[k] = graph[k]
                /\ queue' = Tail(queue)
                /\ enqueued' = enqueued
                /\ pc' = "remote_loop"
                /\ exit_code' = -1]_vars
    /\ [](\A i \in 1..Len(fetch_log) :
            fetch_log[i].response.kind # "ok" =>
                /\ fetch_log[i].package \in DOMAIN graph
                /\ graph[fetch_log[i].package] = <<>>)
    /\ [](RemoteMode /\ fetch_log # <<>> => pc # "exit")

\* a request answered 404 left an empty record, the traversal fetched the next
\* queue entry and returned
C6_Witness ==
    /\ pc = "report"
    /\ Len(fetch_log) >= 3
    /\ fetch_log[2].response.kind = "http_404"
    /\ fetch_log[3].response.kind = "ok"
    /\ graph[fetch_log[2].package] = <<>>
    /\ graph[fetch_log[3].package] # <<>>

\* C7 (the claim as stated): in remote mode a repo_url of neither accepted shape
\* aborts the run before the loop: no package is added to the graph, no report
\* is printed and the process does not end with status 0.
C7_BadUrlIsFatal ==
    (RemoteMode /\ ~extract_github_info(config_data.repo_url).ok) =>
        /\ DOMAIN graph = {}
        /\ ~report.printed
        /\ exit_code # 0
        /\ pc # "done"

\* C8: in a remote traversal started with (root, v) every queue entry carries v
\* and every request is issued with ref v: a dependency is queued with the
\* version of the package that declared it, never with the version its manifest
\* entry declares.
C8_RootVersionEverywhere ==
    RemoteMode =>
        /\ \A i \in 1..Len(queue) : queue[i][2] = config_data.version
        /\ \A i \in 1..Len(enqueued) : enqueued[i][2] = config_data.version
        /\ \A i \in 1..Len(fetch_log) : fetch_log[i].ref = config_data.version

\* a dependency declared with a version other than v was queued with v and then
\* fetched with ref v
C8_Witness ==
    /\ RemoteMode
    /\ \E i \in 1..Len(fetch_log) : \E j \in 1..Len(fetch_log) :
          /\ i < j
          /\ fetch_log[i].response.kind = "ok"
          /\ LET declared == parse_dependencies(fetch_log[i].response.content)
                 d == fetch_log[j].package
             IN  /\ d \in DictKeys(declared)
                 /\ DictGet(declared, d) # config_data.version
                 /\ fetch_log[j].ref = config_data.version

(***************************************************************************)
(* The lines of the parsed text, described without the scanner.            *)
(***************************************************************************)
TextLines == Split(text, "\n")

\* line i without its surrounding whitespace
Stripped(i) == Strip(TextLines[i])

IsBlankOrComment(l) == l = <<>> \/ l[1] = "#"

IsHeader(l) == l # <<>> /\ l[1] = "["

\* position of '=' in a line of shape NAME = VALUE (NAME of word characters,
\* a non-empty VALUE), 0 for any other line
EqualsAt(l) ==
    LET es == {e \in 1..(Len(l) - 1) :
                  /\ l[e] = "="
                  /\ \E n \in 1..(e - 1) :
                        /\ \A k \in 1..n : l[k] \in WordChars
                        /\ \A k \in (n + 1)..(e - 1) : l[k] \in SpaceChars}
    IN  IF es = {} THEN 0 ELSE CHOOSE e \in es : TRUE

HasShape(l) == ~IsBlankOrComment(l) /\ EqualsAt(l) # 0

NameOf(l) == Strip(SubSeq(l, 1, EqualsAt(l) - 1))

ValueOf(l) == Strip(SubSeq(l, EqualsAt(l) + 1, Len(l)))

\* the most recent header before line i is [dependencies]
AfterDependenciesHeader(i) ==
    \E j \in 1..(i - 1) :
        /\ Stripped(j) = s_dependencies_header
        /\ \A k \in (j + 1)..(i - 1) : ~IsHeader(Stripped(k))

\* line i lies in the first dependency section: after the first [dependencies]
\* header, with no other header in between
InFirstDependenciesSection(i) ==
    \E f \in 1..(i - 1) :
        /\ Stripped(f) = s_dependencies_header
        /\ \A k \in 1..(f - 1) : Stripped(k) # s_dependencies_header
        /\ \A k \in (f + 1)..(i - 1) :
              IsHeader(Stripped(k)) => Stripped(k) = s_dependencies_header

ContributingLines ==
    {i \in 1..Len(TextLines) : HasShape(Stripped(i)) /\ InFirstDependenciesSection(i)}

\* C9 (the claim as stated): a NAME = VALUE line contributes an entry iff the most
\* recent section header before it is [dependencies].
C9_MostRecentHeaderDecides ==
    parsed.called =>
        DictKeys(parsed.value) =
            {NameOf(Stripped(i)) :
                i \in {i \in 1..Len(TextLines) :
                          HasShape(Stripped(i)) /\ AfterDependenciesHeader(i)}}

\* C9 (amended): a NAME = VALUE line contributes an entry iff it lies in the first
\* dependency section (a [dependencies] header precedes it and no other header
\* stands between the first [dependencies] header and the line); entries under
\* other sections are excluded and a text without the header yields the empty
\* record.  The scan has no raising statement: it returns a record for every text.
C9_FirstSectionDecides ==
    parsed.called =>
        /\ DictKeys(parsed.value) = {NameOf(Stripped(i)) : i \in ContributingLines}
        /\ (\A i \in 1..Len(TextLines) : Stripped(i) # s_dependencies_header)
              => parsed.value = <<>>
        /\ \A i \in 1..Len(TextLines) :
              (HasShape(Stripped(i)) /\ \E j \in 1..(i - 1) :
                    /\ IsHeader(Stripped(j))
                    /\ Stripped(j) # s_dependencies_header
                    /\ \A k \in (j + 1)..(i - 1) : ~IsHeader(Stripped(k)))
                 => i \notin ContributingLines

\* an entry under [dependencies] was taken and an entry under the section after
\* it was left out
C9_Witness ==
    /\ parsed.called
    /\ DictKeys(parsed.value) = {s_a}
    /\ \E i \in 1..Len(TextLines) :
          /\ HasShape(Stripped(i))
          /\ NameOf(Stripped(i)) = s_b
          /\ \E j \in 1..(i - 1) : Stripped(j) = Strip(l_dev_header)

IsTable(v) == Len(v) >= 2 /\ v[1] = "{" /\ v[Len(v)] = "}"

IsQuoted(v) ==
    /\ Len(v) >= 2
    /\ v[1] = "\""
    /\ v[Len(v)] = "\""
    /\ \A k \in 2..(Len(v) - 1) : v[k] # "\""

\* the <<opening quote, closing quote>> positions of the `version = "..."` keys of v
VersionKeyQuotes(v) ==
    {qc \in (1..Len(v)) \X (1..Len(v)) :
        /\ v[qc[1]] = "\""
        /\ v[qc[2]] = "\""
        /\ qc[2] > qc[1] + 1
        /\ \A k \in (qc[1] + 1)..(qc[2] - 1) : v[k] # "\""
        /\ \E i \in 1..(Len(v) - 6) : \E e \in (i + 7)..(qc[1] - 1) :
              /\ SubSeq(v, i, i + 6) = s_version_key
              /\ v[e] = "="
              /\ \A k \in (i + 7)..(e - 1) : v[k] \in SpaceChars
              /\ \A k \in (e + 1)..(qc[1] - 1) : v[k] \in SpaceChars}

HasVersionKey(v) == VersionKeyQuotes(v) # {}

\* str is the quoted string of a `version = "..."` key of v
VersionKeyString(v, str) ==
    \E qc \in VersionKeyQuotes(v) : str = SubSeq(v, qc[1] + 1, qc[2] - 1)

\* the last contributing line that names n
LastLineOf(n) ==
    CHOOSE i \in ContributingLines :
        /\ NameOf(Stripped(i)) = n
        /\ \A j \in ContributingLines : NameOf(Stripped(j)) = n => j <= i

\* C10: the spec stored for NAME is decided by the last in-section line
\* NAME = VALUE: for an inline table with a `version = "..."` key the quoted
\* version string, for an inline table without one the table text verbatim, for a
\* quoted string the string without its quotes.
C10_StoredSpec ==
    parsed.called =>
        \A n \in DictKeys(parsed.value) :
            LET v == ValueOf(Stripped(LastLineOf(n)))
                stored == DictGet(parsed.value, n)
            IN  /\ (IsTable(v) /\ HasVersionKey(v)) => VersionKeyString(v, stored)
                /\ (IsTable(v) /\ ~HasVersionKey(v)) => stored = v
                /\ IsQuoted(v) => stored = SubSeq(v, 2, Len(v) - 1)

\* a name given first as a quoted string and then as a table with a version key
\* got the table's version, and a table without a version key was kept verbatim
C10_Witness ==
    /\ parsed.called
    /\ DictKeys(parsed.value) = {s_a, s_b}
    /\ DictGet(parsed.value, s_a) = <<"2">>
    /\ DictGet(parsed.value, s_b) = ValueOf(l_table_plain)
    /\ \E i \in ContributingLines : i < LastLineOf(s_a) /\ Stripped(i) = l_quoted

\* the edges of a graph: <<package, dependency name>> for every entry of every record
EdgesOf(g) == UNION {{<<k, d>> : d \in DictKeys(g[k])} : k \in DOMAIN g}

\* C11: the printed report counts the keys of the graph as nodes and the entries
\* of all records as edges, and prints exactly one of three analyses: "no
\* dependencies" iff no record is non-empty, "transitive" iff there is more than
\* one node and at least one edge, and "root only" otherwise, which is the case
\* of exactly one key whose record is non-empty.
C11_ReportClassification ==
    report.printed =>
        /\ report.total_packages = Cardinality(DOMAIN graph)
        /\ report.total_dependencies = Cardinality(EdgesOf(graph))
        /\ report.analysis \in {"no_dependencies", "root_only", "transitive"}
        /\ report.analysis = "no_dependencies" <=> EdgesOf(graph) = {}
        /\ report.analysis = "transitive" <=>
               Cardinality(DOMAIN graph) > 1 /\ Cardinality(EdgesOf(graph)) >= 1
        /\ report.analysis = "root_only" <=>
               Cardinality(DOMAIN graph) = 1 /\ \A k \in DOMAIN graph : graph[k] # <<>>

\* a report on a graph of one package that depends on itself
C11_Witness ==
    /\ report.printed
    /\ report.analysis = "root_only"
    /\ report.total_dependencies >= 1

\* C12: a fixture written from an adjacency map, one line NAME DEP1,DEP2,... per
\* package (NAME alone for an empty set), in any order of the lines and of the
\* names on a line, is read back by read_test_graph as a map with the same keys
\* and, for every key, the same set of dependency names.
C12_FixtureRoundTrip ==
    read_back.done =>
        /\ DOMAIN read_back.graph = DOMAIN adjacency
        /\ \A k \in DOMAIN adjacency : Range(read_back.graph[k]) = adjacency[k]

\* a map with a package of several dependencies and a package of none, read back
C12_Witness ==
    /\ read_back.done
    /\ \E k \in DOMAIN adjacency : Cardinality(adjacency[k]) = 3
    /\ \E k \in DOMAIN adjacency : adjacency[k] = {}
    /\ Cardinality(DOMAIN read_back.graph) = 3

\* the mapping of the configuration file, when it holds one
FileItems == yaml_file.document.items

FileIsMapping ==
    /\ yaml_file.kind = "document"
    /\ yaml_file.document.type = "dict"

NonBlankString(v) == v.type = "str" /\ \E i \in 1..Len(v.val) : v.val[i] \notin SpaceChars

EndsInPng(v) ==
    /\ v.type = "str"
    /\ Len(v.val) >= 4
    /\ v.val[Len(v.val) - 3] = "." /\ v.val[Len(v.val) - 2] = "p"
    /\ v.val[Len(v.val) - 1] = "n" /\ v.val[Len(v.val)] = "g"

\* the failures the claim lists
ListedFailure ==
    \/ yaml_file.kind = "missing"
    \/ yaml_file.kind = "bad_yaml"
    \/ /\ FileIsMapping
       /\ \/ \E k \in {"package_name", "repo_url", "mode", "version", "output_image",
                       "filter_substring"} : k \notin DOMAIN FileItems
          \/ "mode" \in DOMAIN FileItems /\ FileItems["mode"] \notin {Str(s_local), Str(s_remote)}
          \/ "output_image" \in DOMAIN FileItems /\ ~EndsInPng(FileItems["output_image"])

\* every check of the pipeline, stated on the file
AllChecksPass ==
    /\ argv_len = 2
    /\ FileIsMapping
    /\ {"package_name", "repo_url", "mode", "version", "output_image",
        "filter_substring"} \subseteq DOMAIN FileItems
    /\ NonBlankString(FileItems["package_name"])
    /\ NonBlankString(FileItems["repo_url"])
    /\ FileItems["mode"] \in {Str(s_local), Str(s_remote)}
    /\ NonBlankString(FileItems["version"])
    /\ EndsInPng(FileItems["output_image"])
    /\ FileItems["filter_substring"].type = "str"

\* C13: when the configuration file is missing, is not YAML, lacks one of the six
\* required keys, has a mode other than local or remote, or an output_image that
\* does not end in .png, main.py never prints the parameters and, once it has
\* ended, has exit code 1; the parameters are printed only when every check has
\* passed, and the run then ends with exit code 0.
C13_ConfigPipeline ==
    /\ ListedFailure => ~printed_config
    /\ ListedFailure /\ pc \in {"main_done", "main_exit"} => pc = "main_exit" /\ exit_code = 1
    /\ printed_config => AllChecksPass
    /\ pc = "main_exit" => exit_code = 1 /\ ~printed_config
    /\ pc = "main_done" => exit_code = 0 /\ printed_config

\* a complete mapping whose only fault is the mode "test" has ended with code 1
C13_Witness ==
    /\ pc = "main_exit"
    /\ exit_code = 1
    /\ FileIsMapping
    /\ DOMAIN FileItems = {"package_name", "repo_url", "mode", "version", "output_image",
                           "filter_substring"}
    /\ FileItems["mode"] = Str(s_test)
    /\ NonBlankString(FileItems["package_name"])
    /\ NonBlankString(FileItems["repo_url"])
    /\ NonBlankString(FileItems["version"])
    /\ EndsInPng(FileItems["output_image"])
    /\ FileItems["filter_substring"].type = "str"

\* the traversal has returned
Returned == pc \in {"report", "done"}

\* the dependency names the fixture lists for p (none when p has no line)
FixtureDeps(p) == IF p \in DOMAIN test_graph THEN Range(test_graph[p]) ELSE {}

\* every name a test traversal can meet
FixtureUniverse ==
    {config_data.package_name} \cup DOMAIN test_graph \cup
    UNION {Range(test_graph[k]) : k \in DOMAIN test_graph}

\* there is a dependency path root = p0 -> ... -> pn = p in the fixture on which no
\* package matches the filter
HasUnfilteredPath(p) ==
    \E n \in 1..Cardinality(FixtureUniverse) :
        \E path \in [1..n -> FixtureUniverse] :
            /\ path[1] = config_data.package_name
            /\ path[n] = p
            /\ \A i \in 1..n : ~MatchesFilter(path[i], config_data.filter_substring)
            /\ \A i \in 1..(n - 1) : path[i + 1] \in FixtureDeps(path[i])

\* Scenario 1: the fixture "root a,b / a / b a" as read_test_graph returns it
s_scenario_1 == <<"r","o","o","t"," ","a",",","b","\n","a"," ","\n","b"," ","a">>
Scenario1Graph == read_test_graph(s_scenario_1)

\* C14: when build_test_graph_bfs has returned, the keys of the graph are exactly
\* the packages reached from the root by a dependency path of the fixture on which
\* no package (root and end included) matches the filter; the record of a key
\* lists exactly the dependency names of its fixture line, and is empty for a
\* reached package without a line.  For the fixture of Scenario 1, root "root" and
\* the empty filter the graph is {root: {a, b}, a: {}, b: {a}}.
C14_TestGraphResult ==
    TestMode /\ Returned =>
        /\ DOMAIN graph = {p \in FixtureUniverse : HasUnfilteredPath(p)}
        /\ \A k \in DOMAIN graph :
              /\ DictKeys(graph[k]) = FixtureDeps(k)
              /\ k \notin DOMAIN test_graph => graph[k] = <<>>
        /\ (/\ test_graph = Scenario1Graph
            /\ config_data.package_name = s_root
            /\ config_data.filter_substring = <<>>)
           => /\ DOMAIN graph = {s_root, s_a, s_b}
              /\ DictKeys(graph[s_root]) = {s_a, s_b}
              /\ graph[s_a] = <<>>
              /\ DictKeys(graph[s_b]) = {s_a}

\* a returned traversal with a filter that cuts a listed package off, and a
\* reached package that has no line of its own
C14_Witness ==
    /\ TestMode /\ Returned
    /\ config_data.filter_substring # <<>>
    /\ \E k \in DOMAIN graph : \E d \in FixtureDeps(k) : d \notin DOMAIN graph
    /\ \E k \in DOMAIN graph : k \notin DOMAIN test_graph
    /\ Cardinality(DOMAIN graph) >= 2

\* a traversal has begun (the seed is on record) from a root that matches the filter
RootFiltered ==
    /\ enqueued # <<>>
    /\ MatchesFilter(config_data.package_name, config_data.filter_substring)

\* C15: when the root package itself matches the filter, in either mode, the
\* traversal is over after one dequeue: the root is in visited, nothing was
\* fetched or enqueued, the graph has no key; the run does not abort, and the
\* report it prints has 0 packages, 0 dependencies and the "no dependencies"
\* analysis, with exit code 0.
C15_FilteredRoot ==
    RootFiltered =>
        /\ pc \in {"test_loop", "remote_loop", "report", "done"}
        /\ exit_code # 1
        /\ graph = <<>> /\ assigned = <<>> /\ fetch_log = <<>>
        /\ Len(enqueued) = 1 /\ cycle_log = <<>>
        /\ InLoop /\ queue # <<>> => visited = {} /\ order = <<>>
        /\ queue = <<>> =>
              /\ visited = {config_data.package_name}
              /\ order = <<config_data.package_name>>
              /\ skip_log = <<config_data.package_name>>
        /\ pc = "done" =>
              /\ queue = <<>>
              /\ report.printed
              /\ report.total_packages = 0
              /\ report.total_dependencies = 0
              /\ report.analysis = "no_dependencies"
              /\ exit_code = 0

\* a remote run whose root matches the filter only after case folding has printed
\* its report
C15_Witness ==
    /\ RootFiltered
    /\ config_data.mode = "remote"
    /\ ~IsSubstring(config_data.filter_substring, config_data.package_name)
    /\ pc = "done"
    /\ report.printed
    /\ visited = {config_data.package_name}

\* C16: during one traversal (from the seeding of the queue on) no step removes a
\* name from visited, removes a key from the graph or changes a record already
\* stored; and in every state the keys of the graph are names of visited, namely
\* the visited names that do not match the filter (a step of the model is one
\* whole dequeue).
C16_FrameAndKeys ==
    /\ [][enqueued # <<>> =>
            /\ visited \subseteq visited'
            /\ DOMAIN graph \subseteq DOMAIN graph'
            /\ \A k \in DOMAIN graph : graph'[k] = graph[k]]_vars
    /\ [](enqueued # <<>> =>
            /\ DOMAIN graph \subseteq visited
            /\ DOMAIN graph =
                  {p \in visited : ~MatchesFilter(p, config_data.filter_substring)})

\* a traversal in which a second record was stored after a first non-empty one
\* and a filtered name was visited
C16_Witness ==
    /\ Len(assigned) >= 2
    /\ graph[assigned[1]] # <<>>
    /\ skip_log # <<>>
    /\ Cardinality(visited) = 3

\* the names of a queue or of the enqueue history, in either mode
NamesIn(items) ==
    [i \in 1..Len(items) |-> IF config_data.mode = "test" THEN items[i] ELSE items[i][1]]

\* how often x occurs in seq
Count(seq, x) == Cardinality({i \in 1..Len(seq) : seq[i] = x})

\* the fixture has a dependency path of at least one edge from p back to p
OnFixtureCycle(p) ==
    \E n \in 2..(Cardinality(FixtureUniverse) + 1) :
        \E path \in [1..n -> FixtureUniverse] :
            /\ path[1] = p /\ path[n] = p
            /\ \A i \in 1..(n - 1) : path[i + 1] \in FixtureDeps(path[i])

\* C17: a cycle observation for p is recorded by exactly the dequeues that find p
\* in visited, and such a dequeue changes nothing else; p is then a name that was
\* put on the queue more than once, every time before its first dequeue.  In
\* every state the enqueues so far (seed included) equal |visited| + the number of
\* observations + the length of the queue, also name by name.
C17_CycleObservationAccounting ==
    /\ [][IF InLoop /\ queue # <<>>
          THEN /\ cycle_log' # cycle_log <=> HeadName \in visited
               /\ HeadName \in visited =>
                     /\ cycle_log' = Append(cycle_log, HeadName)
                     /\ queue' = Tail(queue)
                     /\ UNCHANGED <<visited, graph, enqueued, order, fetch_log>>
               /\ HeadName \in visited'
               /\ Len(order') + Len(cycle_log') = Len(order) + Len(cycle_log) + 1
               /\ \A i \in (Len(enqueued) + 1)..Len(enqueued') :
                     NamesIn(enqueued')[i] \notin visited'
          ELSE cycle_log' = cycle_log]_vars
    /\ [](enqueued # <<>> =>
            /\ Len(enqueued) = Cardinality(visited) + Len(cycle_log) + Len(queue)
            /\ \A p \in Range(NamesIn(enqueued)) :
                  Count(NamesIn(enqueued), p) =
                      (IF p \in visited THEN 1 ELSE 0) + Count(cycle_log, p)
                      + Count(NamesIn(queue), p)
            /\ \A p \in Range(cycle_log) :
                  /\ p \in visited
                  /\ Count(NamesIn(enqueued), p) >= 2)

\* an observation in a fixture without any cycle: b is listed by root and by a
C17_Witness ==
    /\ TestMode /\ Returned
    /\ cycle_log # <<>>
    /\ \A p \in FixtureUniverse : ~OnFixtureCycle(p)
    /\ \A k \in DOMAIN test_graph : Count(test_graph[k], cycle_log[1]) <= 1

\* C18: when a traversal of either mode has returned, the queue is empty and the
\* graph is closed under expansion: every dependency name of every record is in
\* visited, and is a key of the graph unless it matches the filter.
C18_ClosedAtReturn ==
    Returned =>
        /\ queue = <<>>
        /\ \A k \in DOMAIN graph :
              \A d \in DictKeys(graph[k]) :
                  /\ d \in visited
                  /\ d \in DOMAIN graph \/ MatchesFilter(d, config_data.filter_substring)

\* a returned traversal whose records name a package that is a key and a package
\* that the filter kept out of the graph
C18_Witness ==
    /\ Returned
    /\ \E k \in DOMAIN graph :
          /\ \E d \in DictKeys(graph[k]) : d # k /\ d \in DOMAIN graph
          /\ \E d \in DictKeys(graph[k]) : d \notin DOMAIN graph
    /\ Cardinality(visited) = 3

\* the names within n dependency steps of the root, along the records of the graph
RECURSIVE WithinDistance(_)
WithinDistance(n) ==
    IF n = 0 THEN {config_data.package_name}
    ELSE LET S == WithinDistance(n - 1)
         IN  S \cup UNION {DictKeys(graph[k]) : k \in S \cap DOMAIN graph}

\* length of a shortest dependency path from the root to p through expanded packages
Distance(p) ==
    CHOOSE n \in 0..Cardinality(visited) :
        /\ p \in WithinDistance(n)
        /\ n = 0 \/ p \notin WithinDistance(n - 1)

\* C19: the traversal is breadth first.  When it has returned, the packages were
\* first dequeued (added to visited) in non-decreasing order of their shortest
\* distance from the root along the records of expanded packages, so no package
\* at distance d+1 was processed before any package at distance d; and the
\* processed packages are all the packages within reach.
C19_BreadthFirstOrder ==
    Returned =>
        /\ Range(order) = WithinDistance(Cardinality(visited))
        /\ \A i, j \in 1..Len(order) :
              i < j => Distance(order[i]) <= Distance(order[j])

\* a returned traversal with a package at distance 2 that was queued while a
\* package at distance 1 was still waiting
C19_Witness ==
    /\ Returned
    /\ Len(order) = 4
    /\ Distance(order[2]) = 1
    /\ Distance(order[3]) = 1
    /\ Distance(order[4]) = 2
    /\ order[4] \in DictKeys(graph[order[2]])

\* the source answered every request of the run alike
DeterministicSource ==
    \A i, j \in 1..Len(fetch_log) : fetch_log[i].response = fetch_log[j].response

\* the names declared by the manifest the source answers with (none when nothing
\* was fetched or the fetch failed)
SingleManifestNames ==
    IF fetch_log # <<>> /\ fetch_log[1].response.kind = "ok"
    THEN DictKeys(parse_dependencies(fetch_log[1].response.content))
    ELSE {}

\* every request names the repository of repo_url and the root version
RequestsIgnorePackage ==
    \A i \in 1..Len(fetch_log) :
        /\ fetch_log[i].owner = extract_github_info(config_data.repo_url).owner
        /\ fetch_log[i].repo = extract_github_info(config_data.repo_url).repo
        /\ fetch_log[i].ref = config_data.version

\* what a returned run on a deterministic source has built
SingleManifestGraph ==
    /\ \A k \in DOMAIN graph : graph[k] = graph[config_data.package_name]
    /\ DOMAIN graph =
          {config_data.package_name} \cup
          {d \in SingleManifestNames : ~MatchesFilter(d, config_data.filter_substring)}
    /\ (fetch_log = <<>> \/ fetch_log[1].response.kind # "ok") =>
          graph = GraphSet(<<>>, config_data.package_name, <<>>)

\* C20 as stated: in remote traversal the request does not depend on the package
\* name, and with a source that answers deterministically every expanded package
\* has the record of the root and the keys of the returned graph are the root plus
\* the unfiltered names of the single manifest (the root alone, with an empty
\* record, when the fetch fails).
C20_SingleManifest ==
    RemoteMode =>
        /\ RequestsIgnorePackage
        /\ Returned /\ DeterministicSource => SingleManifestGraph

\* C20, amended: the same, for a root that does not match the filter; a root that
\* matches the filter is not expanded and the returned graph has no key at all.
C20_SingleManifestOfExpandedRoot ==
    RemoteMode =>
        /\ RequestsIgnorePackage
        /\ Returned /\ DeterministicSource =>
              IF MatchesFilter(config_data.package_name, config_data.filter_substring)
              THEN graph = <<>> /\ fetch_log = <<>>
              ELSE SingleManifestGraph

\* a returned remote run in which three packages were fetched, each time with
\* the same manifest in answer
C20_Witness ==
    /\ RemoteMode /\ Returned
    /\ DeterministicSource
    /\ Len(fetch_log) >= 3
    /\ fetch_log[1].response.kind = "ok"
    /\ Cardinality({fetch_log[i].package : i \in 1..Len(fetch_log)}) >= 3
    /\ ~MatchesFilter(config_data.package_name, config_data.filter_substring)

====
